---- MODULE Spec2Model ----
(***************************************************************************)
(* Model of manga_ocr/run.py: the poll loop `run` (clipboard and directory *)
(* variants), `process_and_write_results` with its three sinks, the        *)
(* subscriber registry `connected`, the connection handler `server` and    *)
(* the broadcast `send_to_websocket`, all scheduled by one asyncio loop.   *)
(*                                                                         *)
(* Code between two suspension points (await asyncio.sleep, await          *)
(* websocket.wait_closed, await asyncio.wait) runs atomically with respect *)
(* to the other tasks of the loop; the file system and the subscribers'    *)
(* transports change concurrently with it.  asyncio.wait is modelled as    *)
(* documented for the interpreters the script targets (coroutines are      *)
(* wrapped in tasks, the call returns when all are done and never raises   *)
(* a task's exception).                                                    *)
(***************************************************************************)
EXTENDS Integers, Sequences, FiniteSets, TLC

(* ---------------------------- bounds ----------------------------------- *)
MaxOcr == 2
NumConns == 2
MaxPixels == 2

\* connection handles, and the entries and st_mtime values of the directory
Conns == 1..NumConns
Paths == {"p1", "p2"}
Mtimes == {1, 2}

(* ---------------------------- strings ---------------------------------- *)
\* Python str values that the code inspects are sequences of characters.
S_clipboard == <<"c","l","i","p","b","o","a","r","d">>
S_websocket == <<"w","e","b","s","o","c","k","e","t">>
S_txt == <<".","t","x","t">>
S_out_txt == <<"o",".","t","x","t">>
S_out_log == <<"o",".","l","o","g">>
S_dir == <<"d","i","r">>
S_nodir == <<"n","o","n","e">>

SinkTargets == {S_clipboard, S_websocket, S_out_txt, S_out_log}

EndsWith(s, suffix) ==
    /\ Len(s) >= Len(suffix)
    /\ SubSeq(s, Len(s) - Len(suffix) + 1, Len(s)) = suffix

\* `pat in str(error)`: pat occurs as a contiguous run of msg.
Contains(msg, pat) ==
    \E i \in 1..(Len(msg) + 1) :
        /\ i + Len(pat) - 1 <= Len(msg)
        /\ SubSeq(msg, i, i + Len(pat) - 1) = pat

\* str(error) of the OSErrors ImageGrab.grabclipboard raises, as word lists.
P_identify == <<"cannot", "identify", "image", "file">>
P_target == <<"target", "image/png", "not", "available">>
E_identify == <<"cannot", "identify", "image", "file", "<BytesIO>">>
E_target == <<"Error:", "target", "image/png", "not", "available">>
E_other == <<"Broken", "pipe">>
OSErrors == {E_identify, E_target, E_other}

(* ---------------------------- text ------------------------------------- *)
\* Recognized text is a sequence of Unicode code points.
NL == 10
T_ko == <<12371>>
T_ab == <<65, 66>>
T_sur == <<55296>>
OcrTexts == {T_ko, T_ab, T_sur}
OcrRaise == <<0>>
OcrOutcomes == OcrTexts \cup {OcrRaise}
DirOcrOutcomes == {T_ko, OcrRaise}

IsSurrogate(cp) == cp >= 55296 /\ cp <= 57343

\* bytes(s, 'utf-8') for one code point
EncodeCp(cp) ==
    IF cp < 128 THEN <<cp>>
    ELSE IF cp < 2048 THEN <<192 + (cp \div 64), 128 + (cp % 64)>>
    ELSE IF cp < 65536
         THEN <<224 + (cp \div 4096), 128 + ((cp \div 64) % 64), 128 + (cp % 64)>>
    ELSE <<240 + (cp \div 262144), 128 + ((cp \div 4096) % 64),
           128 + ((cp \div 64) % 64), 128 + (cp % 64)>>

RECURSIVE Utf8Encode(_)
Utf8Encode(s) ==
    IF s = <<>> THEN <<>> ELSE EncodeCp(Head(s)) \o Utf8Encode(Tail(s))

\* bytes(...) raises UnicodeEncodeError on a lone surrogate
CanEncode(s) == \A i \in 1..Len(s) : ~IsSurrogate(s[i])

\* .decode('utf-8') of well-formed UTF-8
RECURSIVE Utf8Decode(_)
Utf8Decode(b) ==
    IF b = <<>> THEN <<>>
    ELSE IF b[1] < 128 THEN <<b[1]>> \o Utf8Decode(SubSeq(b, 2, Len(b)))
    ELSE IF b[1] < 224
         THEN <<(b[1] - 192) * 64 + (b[2] - 128)>> \o Utf8Decode(SubSeq(b, 3, Len(b)))
    ELSE IF b[1] < 240
         THEN <<(b[1] - 224) * 4096 + (b[2] - 128) * 64 + (b[3] - 128)>>
              \o Utf8Decode(SubSeq(b, 4, Len(b)))
    ELSE <<(b[1] - 240) * 262144 + (b[2] - 128) * 4096 + (b[3] - 128) * 64 + (b[4] - 128)>>
         \o Utf8Decode(SubSeq(b, 5, Len(b)))

(* ---------------------------- images ----------------------------------- *)
\* A clipboard value is None, a non-image value (a list of file names) or an
\* image; np.array(image) has a shape (height, width) and a pixel buffer.
None == [kind |-> "none", shape |-> <<>>, px |-> <<>>]
Files == [kind |-> "files", shape |-> <<1>>, px |-> <<0>>]
Corrupt == [kind |-> "corrupt", shape |-> <<>>, px |-> <<>>]
Img(sh, p) == [kind |-> "image", shape |-> sh, px |-> p]
ImgA == Img(<<1, 2>>, <<0, 1>>)
ImgB == Img(<<1, 2>>, <<1, 1>>)
ImgC == Img(<<2, 1>>, <<0, 1>>)
Images == {ImgA, ImgB, ImgC}
ClipValues == Images \cup {None, Files}
IsImage(v) == v.kind = "image"

\* comparing the image objects themselves instead of their pixel arrays
are_images_identical_objects(img1, img2) ==
    IF img1 = None \/ img2 = None
    THEN img1 = img2
    ELSE FALSE

are_images_identical(img1, img2) ==
    IF img1 = None \/ img2 = None
    THEN img1 = img2
    ELSE /\ img1.shape = img2.shape
         /\ \A i \in 1..Len(img1.px) : img1.px[i] = img2.px[i]

\* the pixel data compared without the shapes
is_new_noshape(current, previous) ==
    ~(IF current = None \/ previous = None
      THEN current = previous
      ELSE current.px = previous.px)

\* not are_images_identical(img, old_img)
is_new(current, previous) == ~are_images_identical(current, previous)

\* every bitmap of at most MaxPixels pixels, each pixel 0 or 1
Shapes == {sh \in (1..MaxPixels) \X (1..MaxPixels) : sh[1] * sh[2] <= MaxPixels}
Bitmaps == UNION {{Img(sh, p) : p \in [1..(sh[1] * sh[2]) -> {0, 1}]} : sh \in Shapes}

(* ---------------------------- state ------------------------------------ *)
VARIABLES
    read_from,   \* run's parameter: 'clipboard' or a path
    write_to,    \* run's parameter: the sink target
    verbose,     \* run's parameter
    pc,          \* position of the run task
    err,         \* exception that ended the run task, "none" while it lives
    loop,        \* the asyncio event loop of __main__
    img,         \* run's local `img` (clipboard variant)
    old_paths,   \* run's local `old_paths` (directory variant)
    startKeys,   \* the keys the start-up scan recorded
    todo,        \* entries of the current iterdir() still to be visited
    path_key,    \* run's local `path_key` (directory variant)
    fs,          \* the watched directory: path -> entry
    connected,   \* the module-level registry
    st,          \* per connection: handler position and transport state
    tasks,       \* ws of the send tasks asyncio.wait was given
    pending,     \* ws whose send task has not run yet
    msg,         \* the message of the broadcast in flight
    lastFetch,   \* outcome of the latest grabclipboard()
    lastLog,     \* what the latest run step logged
    ocrLog,      \* the mocr calls in order: the path_key each was made for
    ocrArg,      \* the image of the latest mocr call
    ocrRet,      \* what the latest mocr call returned
    clipOut,     \* what pyperclip.copy put on the clipboard
    fileOut,     \* text content of the sink file
    openHandles, \* handles on the sink file that are still open
    nsent,       \* per connection: ws.send calls of the latest broadcast
    got,         \* per connection: messages the latest broadcast delivered
    recvLog,     \* per connection: every message delivered, with the number
                 \* of the mocr call that produced it
    cmp          \* one call of the change detector: arguments and result

cfgVars == <<read_from, write_to, verbose, cmp>>
runVars == <<pc, err, img, old_paths, startKeys, todo, path_key>>
wsVars == <<connected, st>>
bcVars == <<tasks, pending, msg, nsent, got>>
outVars == <<ocrLog, ocrArg, ocrRet, clipOut, fileOut, openHandles, recvLog>>
vars == <<read_from, write_to, verbose, pc, err, loop, img, old_paths,
          startKeys, todo,
          path_key, fs,
          connected, st, tasks, pending, msg, lastFetch, lastLog, ocrLog,
          ocrArg, ocrRet, clipOut, fileOut, openHandles, nsent, got, recvLog,
          cmp>>

NoKey == <<>>
NoError == [type |-> "none", line |-> 0]
NoText == <<>>
Absent == [present |-> FALSE, mtime |-> 0, data |-> Corrupt]
Entry(m, d) == [present |-> TRUE, mtime |-> m, data |-> d]
FileData == {ImgA, Corrupt}
Entries == {Absent} \cup {Entry(m, d) : m \in Mtimes, d \in FileData}
\* Outcomes of ImageGrab.grabclipboard(): a value, an OSError, another error.
NoFetch == [res |-> "nofetch", val |-> None, msg |-> <<>>]
Fetched(v) == [res |-> "ok", val |-> v, msg |-> <<>>]
RaisedOSError(m) == [res |-> "oserror", val |-> None, msg |-> m]
RaisedOther == [res |-> "exc", val |-> None, msg |-> <<"NotImplementedError">>]
GrabOutcomes ==
    {Fetched(v) : v \in ClipValues} \cup {RaisedOSError(m) : m \in OSErrors}
        \cup {RaisedOther}

\* State when __main__ has created the run task and entered run_forever.
InitCommon ==
    /\ pc = "start"
    /\ err = NoError
    /\ loop = "running"
    /\ img = None
    /\ old_paths = {}
    /\ startKeys = {}
    /\ todo = <<>>
    /\ path_key = NoKey
    /\ connected = {}
    /\ st = [c \in Conns |-> "none"]
    /\ tasks = {}
    /\ pending = {}
    /\ msg = NoText
    /\ lastFetch = NoFetch
    /\ lastLog = "none"
    /\ ocrLog = <<>>
    /\ ocrArg = None
    /\ ocrRet = NoText
    /\ clipOut = NoText
    /\ fileOut = <<>>
    /\ openHandles = 0
    /\ nsent = [c \in Conns |-> 0]
    /\ got = [c \in Conns |-> <<>>]
    /\ recvLog = [c \in Conns |-> <<>>]

\* the change detector on its own: no call under way
NoCall == [current |-> None, previous |-> None, returned |-> FALSE, is_new |-> FALSE]

InitClip ==
    /\ read_from = S_clipboard
    /\ write_to \in SinkTargets
    /\ verbose \in BOOLEAN
    /\ fs = [p \in Paths |-> Absent]
    /\ cmp = NoCall
    /\ InitCommon

InitDir ==
    /\ read_from \in {S_dir, S_nodir}
    /\ write_to = S_out_txt
    /\ verbose = FALSE
    /\ fs \in [Paths -> Entries]
    /\ cmp = NoCall
    /\ InitCommon

(* ---------------------------- sinks ------------------------------------ *)
\* with open(path, 'a') as f: f.write(data) -- append, then close on exit
OpenAppend(content, handles) == [content |-> content, handles |-> handles + 1]
WriteClose(f, data) == [content |-> f.content \o data, handles |-> f.handles - 1]
\* the file opened with mode 'w' instead of 'a'
AppendToFile_truncate(content, handles, data) ==
    WriteClose(OpenAppend(<<>>, handles), data)

AppendToFile(content, handles, data) ==
    WriteClose(OpenAppend(content, handles), data)

\* send_to_websocket(message): one send task per ws in `connected` right now
BroadcastTargets(reg) == reg

\* An exception leaves run: the task ends and keeps the exception; e is its
\* type and ln the source line that raised it.
Die(e, ln) ==
    /\ pc' = "dead"
    /\ err' = [type |-> e, line |-> ln]

AfterEntry(t) == IF Len(t) <= 1 THEN "sleep" ELSE "stat"

Resume(nextpc, nexttodo) ==
    /\ pc' = nextpc
    /\ todo' = nexttodo
    /\ err' = err

\* asyncio.wait given an empty list whenever nobody is connected: it raises
send_to_websocket_nocheck(message, nextpc, nexttodo) ==
    IF connected # {}
    THEN /\ tasks' = BroadcastTargets(connected)
         /\ pending' = BroadcastTargets(connected)
         /\ msg' = message
         /\ nsent' = [c \in Conns |-> 0]
         /\ got' = [c \in Conns |-> <<>>]
         /\ pc' = "bcast"
         /\ UNCHANGED <<todo, err>>
    ELSE /\ Die("ValueError", 29)
         /\ UNCHANGED <<todo, bcVars>>

\* await send_to_websocket(message): with nobody connected it returns at
\* once; otherwise the list of send coroutines is built from `connected` and
\* run waits at asyncio.wait until BcastDone.
send_to_websocket(message, nextpc, nexttodo) ==
    IF connected # {}
    THEN /\ tasks' = BroadcastTargets(connected)
         /\ pending' = BroadcastTargets(connected)
         /\ msg' = message
         /\ nsent' = [c \in Conns |-> 0]
         /\ got' = [c \in Conns |-> <<>>]
         /\ pc' = "bcast"
         /\ UNCHANGED <<todo, err>>
    ELSE /\ Resume(nextpc, nexttodo)
         /\ UNCHANGED bcVars

\* process_and_write_results(mocr, image, write_to); o is what mocr returns
\* (or OcrRaise when it raises); nextpc/nexttodo is where run continues.
Process(image, key, o, nextpc, nexttodo) ==
    /\ ocrLog' = Append(ocrLog, key)
    /\ ocrArg' = image
    /\ ocrRet' = o
    /\ recvLog' = recvLog
    /\ IF o = OcrRaise
       THEN /\ Die("OcrError", 33)
            /\ lastLog' = "none"
            /\ UNCHANGED <<todo, clipOut, fileOut, openHandles, bcVars>>
       ELSE IF ~CanEncode(o)
       THEN /\ Die("UnicodeEncodeError", 37)
            /\ lastLog' = "none"
            /\ UNCHANGED <<todo, clipOut, fileOut, openHandles, bcVars>>
       ELSE LET text == Utf8Decode(Utf8Encode(o)) IN
            /\ lastLog' = "info"
            /\ IF write_to = S_clipboard
               THEN /\ clipOut' = text
                    /\ Resume(nextpc, nexttodo)
                    /\ UNCHANGED <<fileOut, openHandles, bcVars>>
               ELSE IF EndsWith(write_to, S_txt)
               THEN LET f == AppendToFile(fileOut, openHandles, text \o <<NL>>) IN
                    /\ fileOut' = f.content
                    /\ openHandles' = f.handles
                    /\ Resume(nextpc, nexttodo)
                    /\ UNCHANGED <<clipOut, bcVars>>
               ELSE IF write_to = S_websocket
               THEN /\ UNCHANGED <<clipOut, fileOut, openHandles>>
                    /\ send_to_websocket(text, nextpc, nexttodo)
               ELSE /\ Die("ValueError", 49)
                    /\ UNCHANGED <<todo, clipOut, fileOut, openHandles, bcVars>>

(* ---------------------------- run: clipboard --------------------------- *)
is_dir(path) == path = S_dir

Listing(f) == {p \in Paths : f[p].present}
\* iterdir() yields the entries in arbitrary order
Orders(S) == {s \in [1..Cardinality(S) -> S] : \A i, j \in 1..Cardinality(S) :
                                                   s[i] = s[j] => i = j}

\* a key made of the path alone
get_path_key_pathonly(p, f) == <<p, 0>>

get_path_key(p, f) == <<p, f[p].mtime>>

\* run starting with an image taken from the clipboard as the previous image
RunStart_snapshot ==
    /\ pc = "start"
    /\ lastLog' = "info"
    /\ IF read_from = S_clipboard
       THEN /\ img' \in Images
            /\ pc' = "tick"
            /\ UNCHANGED <<err, todo>>
       ELSE IF ~is_dir(read_from)
       THEN /\ Die("ValueError", 96)
            /\ UNCHANGED <<img, todo>>
       ELSE /\ \E t \in Orders(Listing(fs)) : todo' = t
            /\ pc' = IF Listing(fs) = {} THEN "list" ELSE "init"
            /\ UNCHANGED <<err, img>>
    /\ UNCHANGED <<cfgVars, loop, old_paths, startKeys, path_key, fs, wsVars, bcVars,
                   lastFetch, outVars>>

RunStart ==
    /\ pc = "start"
    /\ lastLog' = "info"
    /\ IF read_from = S_clipboard
       THEN /\ img' = None
            /\ pc' = "tick"
            /\ UNCHANGED <<err, todo>>
       ELSE IF ~is_dir(read_from)
       THEN /\ Die("ValueError", 96)
            /\ UNCHANGED <<img, todo>>
       ELSE /\ \E t \in Orders(Listing(fs)) : todo' = t
            /\ pc' = IF Listing(fs) = {} THEN "list" ELSE "init"
            /\ UNCHANGED <<err, img>>
    /\ UNCHANGED <<cfgVars, loop, old_paths, startKeys, path_key, fs, wsVars, bcVars,
                   lastFetch, outVars>>

\* The skip branches of the except clause: TRUE when nothing is logged.
Swallowed(m) ==
    \/ (~verbose /\ Contains(m, P_identify))
    \/ (~verbose /\ Contains(m, P_target))

\* the loop body with `img` reset when the read raises OSError
ClipTick_forget(g, o) ==
    /\ pc = "tick"
    /\ lastFetch' = g
    /\ LET old_img == img IN
       IF g.res = "ok"
       THEN /\ img' = g.val
            /\ IF IsImage(g.val) /\ ~are_images_identical(g.val, old_img)
               THEN /\ Len(ocrLog) < MaxOcr
                    /\ Process(g.val, NoKey, o, "sleep", todo)
               ELSE /\ pc' = "sleep"
                    /\ lastLog' = "none"
                    /\ UNCHANGED <<err, todo, outVars, bcVars>>
       ELSE IF g.res = "oserror"
       THEN /\ img' = None
            /\ lastLog' = IF Swallowed(g.msg) THEN "none" ELSE "warning"
            /\ pc' = "sleep"
            /\ UNCHANGED <<err, todo, outVars, bcVars>>
       ELSE /\ img' = img
            /\ Die("NotImplementedError", 77)
            /\ lastLog' = "none"
            /\ UNCHANGED <<todo, outVars, bcVars>>
    /\ UNCHANGED <<cfgVars, loop, old_paths, startKeys, path_key, fs, wsVars>>

\* One pass of the clipboard loop body, up to the next suspension point.
ClipTick(g, o) ==
    /\ pc = "tick"
    /\ lastFetch' = g
    /\ LET old_img == img IN
       IF g.res = "ok"
       THEN /\ img' = g.val
            /\ IF IsImage(g.val) /\ ~are_images_identical(g.val, old_img)
               THEN /\ Len(ocrLog) < MaxOcr
                    /\ Process(g.val, NoKey, o, "sleep", todo)
               ELSE /\ pc' = "sleep"
                    /\ lastLog' = "none"
                    /\ UNCHANGED <<err, todo, outVars, bcVars>>
       ELSE IF g.res = "oserror"
       THEN /\ img' = img
            /\ lastLog' = IF Swallowed(g.msg) THEN "none" ELSE "warning"
            /\ pc' = "sleep"
            /\ UNCHANGED <<err, todo, outVars, bcVars>>
       ELSE /\ img' = img
            /\ Die("NotImplementedError", 77)
            /\ lastLog' = "none"
            /\ UNCHANGED <<todo, outVars, bcVars>>
    /\ UNCHANGED <<cfgVars, loop, old_paths, startKeys, path_key, fs, wsVars>>

\* await asyncio.sleep(delay_secs) returns
Wake ==
    /\ pc = "sleep"
    /\ pc' = IF read_from = S_clipboard THEN "tick" ELSE "list"
    /\ UNCHANGED <<cfgVars, err, loop, img, old_paths, startKeys, todo, path_key, fs, wsVars,
                   bcVars, lastFetch, lastLog, outVars>>

(* ---------------------------- run: directory --------------------------- *)
\* the start-up scan visiting the entries without recording them
InitStat_norecord ==
    /\ pc = "init"
    /\ LET p == Head(todo) IN
       IF ~fs[p].present
       THEN /\ Die("FileNotFoundError", 102)
            /\ UNCHANGED <<old_paths, todo, startKeys>>
       ELSE /\ old_paths' = old_paths
            /\ startKeys' = startKeys \cup {<<p, fs[p].mtime>>}
            /\ todo' = Tail(todo)
            /\ pc' = IF Len(todo) <= 1 THEN "list" ELSE "init"
            /\ err' = err
    /\ UNCHANGED <<cfgVars, loop, img, path_key, fs, wsVars, bcVars, lastFetch,
                   lastLog, outVars>>

\* for path in read_from.iterdir(): old_paths.add(get_path_key(path))
\* (the start-up scan, one entry per step; lstat raises on a vanished entry)
InitStat ==
    /\ pc = "init"
    /\ LET p == Head(todo) IN
       IF ~fs[p].present
       THEN /\ Die("FileNotFoundError", 102)
            /\ UNCHANGED <<old_paths, todo, startKeys>>
       ELSE /\ old_paths' = old_paths \cup {get_path_key(p, fs)}
            /\ startKeys' = startKeys \cup {get_path_key(p, fs)}
            /\ todo' = Tail(todo)
            /\ pc' = IF Len(todo) <= 1 THEN "list" ELSE "init"
            /\ err' = err
    /\ UNCHANGED <<cfgVars, loop, img, path_key, fs, wsVars, bcVars, lastFetch,
                   lastLog, outVars>>

\* for path in read_from.iterdir(): the listing of one tick
DirList ==
    /\ pc = "list"
    /\ \E t \in Orders(Listing(fs)) : todo' = t
    /\ pc' = IF Listing(fs) = {} THEN "sleep" ELSE "stat"
    /\ UNCHANGED <<cfgVars, err, loop, img, old_paths, startKeys, path_key, fs, wsVars,
                   bcVars, lastFetch, lastLog, outVars>>

\* the key looked up but never added to old_paths
DirStat_noadd ==
    /\ pc = "stat"
    /\ LET p == Head(todo) IN
       IF ~fs[p].present
       THEN /\ Die("FileNotFoundError", 106)
            /\ UNCHANGED <<old_paths, todo, path_key>>
       ELSE /\ path_key' = get_path_key(p, fs)
            /\ err' = err
            /\ old_paths' = old_paths
            /\ IF get_path_key(p, fs) \in old_paths
               THEN /\ pc' = AfterEntry(todo)
                    /\ todo' = Tail(todo)
               ELSE /\ pc' = "open"
                    /\ UNCHANGED todo
    /\ UNCHANGED <<cfgVars, loop, img, startKeys, fs, wsVars, bcVars, lastFetch,
                   lastLog, outVars>>

\* path_key = get_path_key(path); if path_key not in old_paths: add it
DirStat ==
    /\ pc = "stat"
    /\ LET p == Head(todo) IN
       IF ~fs[p].present
       THEN /\ Die("FileNotFoundError", 106)
            /\ UNCHANGED <<old_paths, todo, path_key>>
       ELSE /\ path_key' = get_path_key(p, fs)
            /\ err' = err
            /\ IF get_path_key(p, fs) \in old_paths
               THEN /\ pc' = AfterEntry(todo)
                    /\ todo' = Tail(todo)
                    /\ UNCHANGED old_paths
               ELSE /\ old_paths' = old_paths \cup {get_path_key(p, fs)}
                    /\ pc' = "open"
                    /\ UNCHANGED todo
    /\ UNCHANGED <<cfgVars, loop, img, startKeys, fs, wsVars, bcVars, lastFetch,
                   lastLog, outVars>>

\* Image.open(path); img.load(): OSError when the entry is gone,
\* UnidentifiedImageError when it does not decode
Decodes(e) == e.present /\ IsImage(e.data)

\* the key recorded only when the entry decodes
DirOpen_unrecord(o) ==
    /\ pc = "open"
    /\ LET p == Head(todo) IN
       IF ~Decodes(fs[p])
       THEN /\ lastLog' = "warning"
            /\ old_paths' = old_paths \ {path_key}
            /\ pc' = AfterEntry(todo)
            /\ todo' = Tail(todo)
            /\ UNCHANGED <<err, outVars, bcVars>>
       ELSE /\ Len(ocrLog) < MaxOcr
            /\ old_paths' = old_paths
            /\ Process(fs[p].data, path_key, o, AfterEntry(todo), Tail(todo))
    /\ UNCHANGED <<cfgVars, loop, img, startKeys, path_key, fs, wsVars, lastFetch>>

DirOpen(o) ==
    /\ pc = "open"
    /\ LET p == Head(todo) IN
       IF ~Decodes(fs[p])
       THEN /\ lastLog' = "warning"
            /\ pc' = AfterEntry(todo)
            /\ todo' = Tail(todo)
            /\ UNCHANGED <<err, outVars, bcVars>>
       ELSE /\ Len(ocrLog) < MaxOcr
            /\ Process(fs[p].data, path_key, o, AfterEntry(todo), Tail(todo))
    /\ UNCHANGED <<cfgVars, loop, img, old_paths, startKeys, path_key, fs, wsVars,
                   lastFetch>>

(* ---------------------------- file system ------------------------------ *)
\* Other processes create, rewrite, touch and delete entries at any time.
FsWrite(p, m, d) ==
    /\ fs[p] # Entry(m, d)
    /\ fs' = [fs EXCEPT ![p] = Entry(m, d)]
    /\ UNCHANGED <<cfgVars, runVars, loop, wsVars, bcVars, lastFetch, lastLog,
                   outVars>>

FsDelete(p) ==
    /\ fs[p].present
    /\ fs' = [fs EXCEPT ![p] = Absent]
    /\ UNCHANGED <<cfgVars, runVars, loop, wsVars, bcVars, lastFetch, lastLog,
                   outVars>>

(* ---------------------------- registry --------------------------------- *)
\* server(websocket, path) up to await websocket.wait_closed()
Connect(c) ==
    /\ st[c] = "none"
    /\ st' = [st EXCEPT ![c] = "open"]
    /\ connected' = connected \cup {c}
    /\ UNCHANGED <<cfgVars, runVars, loop, fs, bcVars, lastFetch, lastLog,
                   outVars>>

\* the transport of c closes (remote close, network failure)
CloseConn(c) ==
    /\ st[c] = "open"
    /\ st' = [st EXCEPT ![c] = "closed"]
    /\ UNCHANGED <<cfgVars, runVars, loop, fs, connected, bcVars, lastFetch,
                   lastLog, outVars>>

\* the handler leaving without the finally clause
HandlerExit_noremove(c) ==
    /\ st[c] = "closed"
    /\ st' = [st EXCEPT ![c] = "done"]
    /\ connected' = connected
    /\ UNCHANGED <<cfgVars, runVars, loop, fs, bcVars, lastFetch, lastLog,
                   outVars>>

\* wait_closed() returns and the finally clause runs
HandlerExit(c) ==
    /\ st[c] = "closed"
    /\ st' = [st EXCEPT ![c] = "done"]
    /\ connected' = connected \ {c}
    /\ UNCHANGED <<cfgVars, runVars, loop, fs, bcVars, lastFetch, lastLog,
                   outVars>>

(* ---------------------------- broadcast -------------------------------- *)
\* what a subscriber is handed: the message, and which mocr call it is from
Delivery == [n |-> Len(ocrLog), text |-> msg]

\* the message written twice to the connection
SendStep_twice(c) ==
    /\ pc = "bcast"
    /\ c \in pending
    /\ pending' = pending \ {c}
    /\ nsent' = [nsent EXCEPT ![c] = @ + 2]
    /\ got' = IF st[c] = "open" THEN [got EXCEPT ![c] = @ \o <<msg, msg>>] ELSE got
    /\ recvLog' = IF st[c] = "open"
                  THEN [recvLog EXCEPT ![c] = @ \o <<Delivery, Delivery>>]
                  ELSE recvLog
    /\ UNCHANGED <<cfgVars, runVars, loop, fs, wsVars, tasks, msg, lastFetch,
                   lastLog, ocrLog, ocrArg, ocrRet, clipOut, fileOut, openHandles>>

\* the sends awaited so that the first failing one raises in the caller
SendStep_raise(c) ==
    /\ pc = "bcast"
    /\ c \in pending
    /\ nsent' = [nsent EXCEPT ![c] = @ + 1]
    /\ IF st[c] = "open"
       THEN /\ got' = [got EXCEPT ![c] = Append(@, msg)]
            /\ recvLog' = [recvLog EXCEPT ![c] = Append(@, Delivery)]
            /\ pending' = pending \ {c}
            /\ UNCHANGED <<pc, err>>
       ELSE /\ got' = got
            /\ recvLog' = recvLog
            /\ pending' = {}
            /\ Die("ConnectionClosed", 29)
    /\ UNCHANGED <<cfgVars, loop, img, old_paths, startKeys, todo, path_key, fs,
                   wsVars, tasks, msg, lastFetch, lastLog, ocrLog, ocrArg, ocrRet,
                   clipOut, fileOut, openHandles>>

\* the sends following the registry as it is when they run: whoever is
\* registered by then is sent the message too
SendStep_live(c) ==
    LET late == {d \in connected \ tasks : nsent[d] = 0}
        to == {c} \cup late
    IN  /\ pc = "bcast"
        /\ c \in pending
        /\ pending' = pending \ {c}
        /\ nsent' = [d \in Conns |-> IF d \in to THEN nsent[d] + 1 ELSE nsent[d]]
        /\ got' = [d \in Conns |-> IF d \in to /\ st[d] = "open"
                                    THEN Append(got[d], msg) ELSE got[d]]
        /\ recvLog' = [d \in Conns |-> IF d \in to /\ st[d] = "open"
                                        THEN Append(recvLog[d], Delivery)
                                        ELSE recvLog[d]]
        /\ UNCHANGED <<cfgVars, runVars, loop, fs, wsVars, tasks, msg, lastFetch,
                       lastLog, ocrLog, ocrArg, ocrRet, clipOut, fileOut, openHandles>>

\* The send task of c runs: ws.send(message) delivers on an open connection
\* and raises ConnectionClosed otherwise; the exception stays in the task.
SendStep(c) ==
    /\ pc = "bcast"
    /\ c \in pending
    /\ pending' = pending \ {c}
    /\ nsent' = [nsent EXCEPT ![c] = @ + 1]
    /\ got' = IF st[c] = "open" THEN [got EXCEPT ![c] = Append(@, msg)] ELSE got
    /\ recvLog' = IF st[c] = "open"
                  THEN [recvLog EXCEPT ![c] = Append(@, Delivery)]
                  ELSE recvLog
    /\ UNCHANGED <<cfgVars, runVars, loop, fs, wsVars, tasks, msg, lastFetch,
                   lastLog, ocrLog, ocrArg, ocrRet, clipOut, fileOut, openHandles>>

\* run resuming although send tasks are still pending
BcastDone_early ==
    /\ pc = "bcast"
    /\ IF read_from = S_clipboard
       THEN /\ pc' = "sleep"
            /\ todo' = todo
       ELSE /\ pc' = AfterEntry(todo)
            /\ todo' = Tail(todo)
    /\ UNCHANGED <<cfgVars, err, loop, img, old_paths, startKeys, path_key, fs, wsVars,
                   bcVars, lastFetch, lastLog, outVars>>

\* asyncio.wait returns: every send task is done
BcastDone ==
    /\ pc = "bcast"
    /\ pending = {}
    /\ IF read_from = S_clipboard
       THEN /\ pc' = "sleep"
            /\ todo' = todo
       ELSE /\ pc' = AfterEntry(todo)
            /\ todo' = Tail(todo)
    /\ UNCHANGED <<cfgVars, err, loop, img, old_paths, startKeys, path_key, fs, wsVars,
                   bcVars, lastFetch, lastLog, outVars>>

WsNext ==
    \/ \E c \in Conns : Connect(c)
    \/ \E c \in Conns : CloseConn(c)
    \/ \E c \in Conns : HandlerExit(c)
    \/ \E c \in Conns : SendStep(c)
    \/ BcastDone

NextClip ==
    \/ RunStart
    \/ \E g \in GrabOutcomes, o \in OcrOutcomes : ClipTick(g, o)
    \/ Wake
    \/ WsNext

SpecClip == InitClip /\ [][NextClip]_vars

\* The configuration __main__ runs: clipboard source, websocket sink.  The
\* event loop runs every task that is ready, so a send task that was created
\* runs, asyncio.wait returns once all are done, and a handler whose
\* connection has closed resumes.
InitWs ==
    /\ InitClip
    /\ write_to = S_websocket
    /\ verbose = FALSE

WsGrabOutcomes == {Fetched(ImgA), Fetched(ImgB), RaisedOSError(E_other)}

NextWs ==
    \/ RunStart
    \/ \E g \in WsGrabOutcomes, o \in OcrOutcomes : ClipTick(g, o)
    \/ Wake
    \/ WsNext

SpecWsFair ==
    /\ InitWs
    /\ [][NextWs]_vars
    /\ \A c \in Conns : WF_vars(HandlerExit(c)) /\ WF_vars(SendStep(c))
    /\ WF_vars(BcastDone)

NextDir ==
    \/ RunStart
    \/ InitStat
    \/ DirList
    \/ DirStat
    \/ \E o \in DirOcrOutcomes : DirOpen(o)
    \/ Wake
    \/ \E p \in Paths, m \in Mtimes, d \in FileData : FsWrite(p, m, d)
    \/ \E p \in Paths : FsDelete(p)

SpecDir == InitDir /\ [][NextDir]_vars

\* The change detector called once on a pair drawn from absent or a bitmap.
InitDetect ==
    /\ read_from = S_clipboard
    /\ write_to = S_clipboard
    /\ verbose = FALSE
    /\ fs = [p \in Paths |-> Absent]
    /\ cmp \in {[current |-> c, previous |-> p, returned |-> FALSE, is_new |-> FALSE] :
                   c \in Bitmaps \cup {None}, p \in Bitmaps \cup {None}}
    /\ InitCommon

\* one evaluation of the change detector
Detect ==
    /\ ~cmp.returned
    /\ cmp' = [cmp EXCEPT !.returned = TRUE,
                          !.is_new = is_new(cmp.current, cmp.previous)]
    /\ UNCHANGED <<read_from, write_to, verbose, runVars, loop, fs, wsVars, bcVars,
                   lastFetch, lastLog, outVars>>

NextDetect == Detect

SpecDetect == InitDetect /\ [][NextDetect]_vars

(* ---------------------------- properties ------------------------------- *)
PixelIdentical(a, b) == IsImage(a) /\ IsImage(b) /\ a.shape = b.shape /\ a.px = b.px
IsFileSink == EndsWith(write_to, S_txt)
NoSinkWrite ==
    /\ clipOut' = clipOut
    /\ fileOut' = fileOut
    /\ pc' # "bcast"
    /\ UNCHANGED <<tasks, pending, msg, nsent, got>>
ClipTickStep == pc = "tick" /\ pc' # "tick"

\* C1: in clipboard mode a tick whose fetched image is pixel-identical to the
\* image fetched on the preceding tick makes no OCR call and no sink write;
\* with a file sink, one accepted image (however often it is fetched again)
\* leaves exactly one line, the recognized text and a newline, in the file.
C1_RepeatStep ==
    (/\ ClipTickStep
     /\ lastFetch.res = "ok"
     /\ lastFetch'.res = "ok"
     /\ PixelIdentical(lastFetch.val, lastFetch'.val))
    => (ocrLog' = ocrLog /\ NoSinkWrite)
C1_OneLine ==
    (IsFileSink /\ Len(ocrLog) = 1 /\ err = NoError) => fileOut = ocrRet \o <<NL>>
C1_NoRepeat == [](C1_OneLine) /\ [][C1_RepeatStep]_vars
C1_Witness ==
    /\ IsFileSink
    /\ pc = "sleep"
    /\ lastFetch.res = "ok"
    /\ IsImage(lastFetch.val)
    /\ lastFetch.val = ocrArg
    /\ lastLog = "none"
    /\ Len(ocrLog) = 1
    /\ fileOut = ocrRet \o <<NL>>

\* C2 as claimed: no file that was in the directory when polling began is
\* ever handed to OCR.
StartPaths == {k[1] : k \in startKeys}
C2_Original == \A i \in 1..Len(ocrLog) : ocrLog[i][1] \notin StartPaths

\* C2 amended: no (path, modification-time) pair recorded by the start-up scan
\* is ever handed to OCR; a file present at start-up is processed only after
\* its modification time has changed.
C2_StartKeysSkipped == \A i \in 1..Len(ocrLog) : ocrLog[i] \notin startKeys
C2_Witness ==
    /\ path_key \in startKeys
    /\ fs[path_key[1]].present
    /\ pc = "sleep"
    /\ Len(ocrLog) >= 1

\* C3: when a listed entry whose path is already recorded has a modification
\* time that is not, the tick records the new key and, if the entry decodes,
\* hands it to OCR.
SeenPath(p) == \E k \in old_paths : k[1] = p
DirStatStep == pc = "stat" /\ (pc' # "stat" \/ todo' # todo)
DirOpenStep == pc = "open" /\ pc' # "open"
C3_Step ==
    /\ (/\ DirStatStep
        /\ fs[Head(todo)].present
        /\ SeenPath(Head(todo))
        /\ <<Head(todo), fs[Head(todo)].mtime>> \notin old_paths)
       => (/\ <<Head(todo), fs[Head(todo)].mtime>> \in old_paths'
           /\ path_key' = <<Head(todo), fs[Head(todo)].mtime>>
           /\ pc' = "open")
    /\ (DirOpenStep /\ Decodes(fs[Head(todo)]))
       => (/\ ocrLog' = Append(ocrLog, path_key)
           /\ ocrArg' = fs[Head(todo)].data)
C3_ReprocessOnMtimeChange == [][C3_Step]_vars
C3_Witness ==
    /\ Len(ocrLog) = 2
    /\ ocrLog[1][1] = ocrLog[2][1]
    /\ ocrLog[1][2] # ocrLog[2][2]
    /\ {ocrLog[1], ocrLog[2]} \subseteq old_paths

\* C4: with the websocket sink, a broadcast makes one send task for every
\* subscriber in the registry at its start and for nobody else, each task
\* sends the recognized text once, every recipient whose connection is open
\* receives exactly that text exactly once, and nobody receives it twice.
C4_Inv ==
    /\ pc = "bcast" => msg = ocrRet
    /\ pending \subseteq tasks
    /\ \A c \in Conns :
        /\ nsent[c] = IF c \in tasks \ pending THEN 1 ELSE 0
        /\ Len(got[c]) <= nsent[c]
        /\ \A i \in 1..Len(got[c]) : got[c][i] = msg
        /\ (c \in tasks \ pending /\ st[c] = "open") => got[c] = <<msg>>
C4_Start ==
    (pc # "bcast" /\ pc' = "bcast")
    => (tasks' = connected /\ pending' = connected /\ msg' = ocrRet')
C4_ExactlyOnce == [](C4_Inv) /\ [][C4_Start]_vars
C4_Witness ==
    /\ write_to = S_websocket
    /\ pc = "sleep"
    /\ Cardinality(tasks) >= 2
    /\ msg = T_ko
    /\ \A c \in tasks : got[c] = <<T_ko>> /\ nsent[c] = 1

\* C5: when the send to one recipient of a broadcast fails, every other
\* recipient whose connection is open still receives the text, the broadcast
\* returns to the poll loop without an exception, the loop goes on to its
\* sleep, and the closed subscriber is eventually out of the registry.
SendFailed(c) == c \in tasks /\ nsent[c] = 1 /\ got[c] = <<>>
C5_Inv ==
    /\ pc = "bcast" => err = NoError
    /\ \A c, d \in Conns :
        (SendFailed(c) /\ d \in tasks \ pending /\ st[d] = "open")
        => got[d] = <<msg>>
C5_Return ==
    (pc = "bcast" /\ pc' # "bcast")
    => (pc' = "sleep" /\ err' = NoError /\ connected' = connected)
C5_FailureIsolation ==
    /\ [](C5_Inv)
    /\ [][C5_Return]_vars
    /\ (pc = "bcast") ~> (pc = "sleep")
    /\ \A c \in Conns : (st[c] = "closed") ~> (c \notin connected)
C5_Witness ==
    /\ pc = "sleep"
    /\ \E c, d \in tasks :
        /\ SendFailed(c)
        /\ c \notin connected
        /\ got[d] = <<msg>>

\* C6: the registry holds exactly the connections whose handler has
\* registered and not yet finished; only a connect or a disconnect changes
\* it, and a finishing handler removes a handle that is in the set.
Registered == {c \in Conns : st[c] \in {"open", "closed"}}
C6_Step ==
    /\ connected' # connected => st' # st
    /\ \A c \in Conns :
        (st[c] = "closed" /\ st'[c] = "done")
        => (c \in connected /\ c \notin connected')
    /\ \A c \in Conns :
        (st[c] = "none" /\ st'[c] = "open") => c \in connected'
C6_Registry == [](connected = Registered) /\ [][C6_Step]_vars
C6_Witness ==
    \E c, d \in Conns :
        /\ st[c] = "done"
        /\ st[d] = "open"
        /\ connected = {d}

\* C7 as claimed: with any sink target other than 'clipboard' and
\* 'websocket', each sink write appends the recognized text and a newline to
\* that file and leaves no handle open.
SinkReached == ocrLog' # ocrLog /\ ocrRet' # OcrRaise /\ CanEncode(ocrRet')
FileAppended == fileOut' = fileOut \o ocrRet' \o <<NL>> /\ openHandles' = 0
C7_OriginalStep ==
    (SinkReached /\ write_to \notin {S_clipboard, S_websocket}) => FileAppended
C7_Original == [][C7_OriginalStep]_vars

\* C7 amended: with any sink target that ends in '.txt', each sink write
\* appends the recognized text and a newline to that file and leaves no
\* handle open.
C7_AmendedStep ==
    (SinkReached /\ EndsWith(write_to, S_txt))
    => (FileAppended /\ clipOut' = clipOut /\ pc' # "bcast")
C7_FileSinkAppends == [][C7_AmendedStep]_vars
C7_Witness ==
    /\ IsFileSink
    /\ Len(ocrLog) = 2
    /\ err = NoError
    /\ Len(fileOut) > Len(ocrRet) + 1
    /\ SubSeq(fileOut, Len(fileOut) - Len(ocrRet), Len(fileOut)) = ocrRet \o <<NL>>

\* C8 as claimed: the ValueError for an unrecognized sink target comes with no
\* write to any destination and ends the process.
C8_Original ==
    err = [type |-> "ValueError", line |-> 49]
    => (/\ clipOut = NoText
        /\ fileOut = <<>>
        /\ tasks = {}
        /\ loop = "stopped")

\* C9 as claimed: a failed read of a directory entry ends the poll loop only
\* in the start-up scan, before the loop has started.
C9_Original == err.type = "FileNotFoundError" => err.line = 102

\* C10 as claimed: a clipboard read that raises, whatever the error, leaves
\* the run task alive with nothing recognized or written, and is logged as a
\* warning unless it is one of the two transient errors and verbose is off.
Transient(m) == Contains(m, P_identify) \/ Contains(m, P_target)
C10_Original ==
    lastFetch.res \in {"oserror", "exc"}
    => (/\ err = NoError
        /\ pc \in {"sleep", "tick"}
        /\ lastLog = IF Transient(lastFetch.msg) /\ ~verbose THEN "none" ELSE "warning")
C10_OSErrorOnly == lastFetch.res = "oserror" => C10_Original

\* C11 as claimed: an OCR call that raises aborts only that image; the run
\* task stays alive and goes on polling.
C11_Original == (Len(ocrLog) > 0 /\ ocrRet = OcrRaise) => pc # "dead"

\* C12: when an unseen entry fails to decode, its key stays recorded, nothing
\* is recognized or written for it, a warning is logged, and a later tick that
\* finds the same (path, modification-time) skips it without opening it.
C12_Step ==
    /\ (DirOpenStep /\ ~Decodes(fs[Head(todo)]))
       => (/\ path_key \in old_paths'
           /\ path_key[1] = Head(todo)
           /\ ocrLog' = ocrLog
           /\ fileOut' = fileOut
           /\ clipOut' = clipOut
           /\ lastLog' = "warning"
           /\ pc' \in {"stat", "sleep"})
    /\ (/\ DirStatStep
        /\ fs[Head(todo)].present
        /\ <<Head(todo), fs[Head(todo)].mtime>> \in old_paths)
       => (pc' \in {"stat", "sleep"} /\ ocrLog' = ocrLog /\ fileOut' = fileOut)
    /\ \A k \in old_paths : k \in old_paths'
C12_DecodeFailureRecorded == [](pc = "open" => path_key \in old_paths) /\ [][C12_Step]_vars
C12_Witness ==
    /\ pc = "stat"
    /\ ocrLog = <<>>
    /\ lastLog = "warning"
    /\ fs[Head(todo)] = Entry(fs[Head(todo)].mtime, Corrupt)
    /\ <<Head(todo), fs[Head(todo)].mtime>> \in old_paths \ startKeys

\* C13: every step makes at most one OCR call and at most one sink write for
\* it; a recorded key is never removed from old_paths; no (path,
\* modification-time) pair is handed to OCR twice.
RECURSIVE CountNL(_)
CountNL(t) == IF t = <<>> THEN 0 ELSE (IF Head(t) = NL THEN 1 ELSE 0) + CountNL(Tail(t))
C13_Inv ==
    /\ \A i, j \in 1..Len(ocrLog) : ocrLog[i] = ocrLog[j] => i = j
    /\ \A i \in 1..Len(ocrLog) : ocrLog[i] \in old_paths
    /\ CountNL(fileOut) <= Len(ocrLog)
C13_Step ==
    /\ old_paths \subseteq old_paths'
    /\ Len(ocrLog') <= Len(ocrLog) + 1
    /\ SubSeq(ocrLog', 1, Len(ocrLog)) = ocrLog
    /\ CountNL(fileOut') <= CountNL(fileOut) + (Len(ocrLog') - Len(ocrLog))
C13_AtMostOnce == [](C13_Inv) /\ [][C13_Step]_vars
C13_Witness ==
    /\ Len(ocrLog) = 2
    /\ ocrLog[1] # ocrLog[2]
    /\ CountNL(fileOut) = 2
    /\ pc = "sleep"


\* C14: a broadcast while the registry is empty raises nothing, sends
\* nothing and changes no state: run goes on to its sleep, no send task is
\* created, and the registry and everything delivered so far stay as they
\* were.
C14_Step ==
    (SinkReached /\ write_to = S_websocket /\ connected = {})
    => /\ pc' = "sleep"
       /\ err' = NoError
       /\ lastLog' = "info"
       /\ UNCHANGED <<tasks, pending, msg, nsent, got, recvLog>>
       /\ UNCHANGED <<connected, st, clipOut, fileOut, openHandles>>
C14_EmptyBroadcast == [](pc = "bcast" => tasks # {}) /\ [][C14_Step]_vars
C14_Witness ==
    /\ write_to = S_websocket
    /\ connected = {}
    /\ Len(ocrLog) = 1
    /\ ocrRet = T_ab
    /\ tasks = {}
    /\ msg = NoText
    /\ lastLog = "info"
    /\ pc = "sleep"
    /\ err = NoError


\* C15: for every pair (current, previous) drawn from absent or an image,
\* the change detector answers "not new" exactly when both are absent or
\* both are images of equal height and width whose pixels agree at every
\* coordinate, and "new" otherwise.
Height(a) == a.shape[1]
Width(a) == a.shape[2]
PixelAt(a, r, c) == a.px[(r - 1) * Width(a) + c]
SameBitmap(a, b) ==
    /\ IsImage(a) /\ IsImage(b)
    /\ Height(a) = Height(b)
    /\ Width(a) = Width(b)
    /\ \A r \in 1..Height(a), c \in 1..Width(a) : PixelAt(a, r, c) = PixelAt(b, r, c)
BothAbsent(a, b) == a = None /\ b = None
C15_ChangeDetector ==
    cmp.returned
    => (cmp.is_new <=> ~(BothAbsent(cmp.current, cmp.previous)
                         \/ SameBitmap(cmp.current, cmp.previous)))
C15_Witness ==
    /\ cmp.returned
    /\ cmp.is_new
    /\ IsImage(cmp.current) /\ IsImage(cmp.previous)
    /\ cmp.current.px = cmp.previous.px
    /\ cmp.current.shape # cmp.previous.shape


\* C16 as claimed: after every poll tick the previous image is the value the
\* tick's fetch produced, and 'no image' when the read failed.
Produced(f) == IF f.res = "ok" THEN f.val ELSE None
C16_OriginalStep ==
    (ClipTickStep /\ lastFetch'.res \in {"ok", "oserror"})
    => img' = Produced(lastFetch')
C16_Original == [][C16_OriginalStep]_vars

\* C16 amended: after every poll tick whose read returned, the previous image
\* is the value that read returned (an image, another value or 'no image'),
\* whether or not it was accepted; a tick whose read raised OSError leaves
\* the previous image as the latest returned value, and makes no OCR call
\* and no sink write; nothing but a poll tick changes the previous image.
C16_AmendedStep ==
    /\ (ClipTickStep /\ lastFetch'.res = "ok") => img' = lastFetch'.val
    /\ (ClipTickStep /\ lastFetch'.res = "oserror")
       => (img' = img /\ ocrLog' = ocrLog /\ NoSinkWrite /\ pc' = "sleep")
    /\ (~ClipTickStep /\ pc # "start") => img' = img
C16_PreviousKeptOnFailure == [][C16_AmendedStep]_vars
C16_Witness ==
    /\ pc = "sleep"
    /\ lastFetch.res = "oserror"
    /\ IsImage(img)
    /\ img = ocrArg
    /\ Len(ocrLog) = 1
    /\ err = NoError


\* C17: when a subscriber connects or disconnects while a broadcast is in
\* flight, the broadcast does not fail and returns to the poll loop; its
\* send tasks are those of the subscribers registered when it started and
\* never change, so a subscriber that connects meanwhile is sent nothing of
\* it; and the registry takes up the connect or disconnect at once.
InFlight == pc = "bcast"
C17_Inv ==
    /\ InFlight => err = NoError
    /\ connected = Registered
    /\ \A c \in Conns \ tasks : nsent[c] = 0 /\ got[c] = <<>>
    /\ (InFlight /\ pending = {}) => \A c \in tasks : nsent[c] = 1
C17_Step ==
    /\ (~InFlight /\ InFlight') => tasks' = Registered
    /\ (InFlight /\ InFlight') => (tasks' = tasks /\ msg' = msg /\ pending' \subseteq pending)
    /\ (InFlight /\ connected' # connected)
       => (InFlight' /\ err' = NoError /\ UNCHANGED <<tasks, pending, nsent, got, recvLog>>)
    /\ (InFlight /\ ~InFlight') => (pc' = "sleep" /\ err' = NoError)
C17_SnapshotRecipients ==
    /\ [](C17_Inv)
    /\ [][C17_Step]_vars
    /\ InFlight ~> ~InFlight
C17_Witness ==
    /\ InFlight
    /\ pending = {}
    /\ \E c \in connected \ tasks : st[c] = "open" /\ got[c] = <<>> /\ recvLog[c] = <<>>
    /\ \E d \in tasks \ connected : got[d] = <<msg>>

\* C18: processing is strictly sequential.  While any send of the current
\* broadcast has not completed the run task stays at asyncio.wait: no
\* clipboard fetch, no detection and no OCR call happens until the broadcast
\* is over; every delivery carries the text of the latest OCR call, so each
\* subscriber receives the texts in the order their images were discovered.
C18_Inv ==
    /\ pending # {} => InFlight
    /\ \A c \in Conns :
        /\ \A i \in 1..Len(recvLog[c]) : recvLog[c][i].n <= Len(ocrLog)
        /\ \A i, j \in 1..Len(recvLog[c]) : i < j => recvLog[c][i].n < recvLog[c][j].n
C18_Step ==
    /\ InFlight => UNCHANGED <<ocrLog, ocrArg, ocrRet, lastFetch, img>>
    /\ (InFlight /\ pending # {}) => InFlight'
    /\ \A c \in Conns :
        recvLog'[c] # recvLog[c]
        => /\ InFlight /\ c \in pending /\ c \notin pending'
           /\ recvLog'[c] = Append(recvLog[c], [n |-> Len(ocrLog), text |-> ocrRet])
C18_Sequential == [](C18_Inv) /\ [][C18_Step]_vars
C18_Witness ==
    /\ pc = "sleep"
    /\ Len(ocrLog) = 2
    /\ \E c \in Conns :
        /\ st[c] = "open"
        /\ Len(recvLog[c]) = 2
        /\ recvLog[c][1] = [n |-> 1, text |-> T_ko]
        /\ recvLog[c][2] = [n |-> 2, text |-> T_ab]


\* C19: clipboard mode excludes nothing at start-up.  Until a read has
\* returned, the previous image is absent and no OCR call has been made; a
\* failed read leaves it absent; and a tick that finds the previous image
\* absent and whose read returns an image hands that image to OCR.
C19_Inv == lastFetch.res = "nofetch" => (img = None /\ ocrLog = <<>>)
C19_Step ==
    /\ (ClipTickStep /\ img = None /\ lastFetch'.res = "oserror") => img' = None
    /\ (ClipTickStep /\ img = None /\ lastFetch'.res = "ok" /\ IsImage(lastFetch'.val))
       => (ocrLog' = Append(ocrLog, NoKey) /\ ocrArg' = lastFetch'.val)
C19_NoStartupExclusion == [](C19_Inv) /\ [][C19_Step]_vars
C19_Witness ==
    /\ read_from = S_clipboard
    /\ write_to = S_clipboard
    /\ pc = "sleep"
    /\ ocrLog = <<NoKey>>
    /\ lastFetch = Fetched(ImgA)
    /\ ocrArg = ImgA
    /\ img = ImgA
    /\ clipOut = T_ko

====
